---- MODULE Spec2Model ----
(***************************************************************************)
(* Model of python_sandbox/notebooks/model_petri_equation_conversion_amr.py *)
(*                                                                         *)
(* The notebook has three helper functions and a script that wires them:   *)
(*   convert_latex2mathml     LaTeX equations -> MathML strings            *)
(*   convert_mathml2petrinet  MathML strings  -> AMR document (HTTP call)  *)
(*   draw_graph               AMR / ACSet document -> node and edge tables *)
(*                            -> directed graph -> rendered figure         *)
(*                                                                         *)
(* Three specifications share the variables:                               *)
(*   SpecDraw   one document, draw_graph called on it twice                *)
(*   SpecNet    one call of convert_mathml2petrinet, then the script's     *)
(*              draw_graph call on its result                              *)
(*   SpecLatex  one call of convert_latex2mathml                           *)
(*                                                                         *)
(* Identifiers (JSON strings in the program) are numbered 1..NumIds.       *)
(* A Python dict is a function on its keys, {} is the empty function, a    *)
(* Python list is a sequence.  A raised exception is the record            *)
(* [exc, line]; NoExc stands for a normal return.                          *)
(***************************************************************************)
EXTENDS Integers, Sequences, FiniteSets, TLC

VARIABLES
    pc,                 \* position in the scenario
    model,              \* draw_graph: the document passed as `model`
    args,               \* draw_graph: the other arguments
    frame,              \* draw_graph: its locals and outcome after the last call
    files,              \* image files written so far (path, dpi)
    model_mathml,       \* convert_mathml2petrinet: its argument
    response,           \* the HTTP response the service gave
    log,                \* HTTP requests issued and diagnostics printed, in order
    net,                \* convert_mathml2petrinet: result and outcome
    model_latex,        \* convert_latex2mathml: its argument
    latex_out           \* convert_latex2mathml: result

vars == <<pc, model, args, frame, files, model_mathml, response, log, net,
          model_latex, latex_out>>

\* ------------------------------------------------------------------ bounds

NumIds == 2        \* identifiers are 1..NumIds
MaxStates == 1     \* state records in a document
MaxTrans == 1      \* transition records in a document
MaxArcs == 2       \* input and output references in a document, together
MaxEqs == 2        \* equations in a list
MaxEqLen == 2      \* tokens in an equation
MaxPayload == 1    \* markup strings sent to the service

\* ------------------------------------------------------------ Python values

Range(s) == {s[i] : i \in DOMAIN s}

SeqsUpTo(S, n) == UNION {[1..k -> S] : k \in 0..n}

EmptyDict == [k \in {} |-> k]

NoExc == [exc |-> "none", line |-> 0]

Raise(e, l) == [exc |-> e, line |-> l]

\* --------------------------------------------------------------- documents

Ids == 1..NumIds

\* A transition record; its two lists hold at most `b` identifiers together.
TransRecs(b) ==
    {r \in [id : Ids, input : SeqsUpTo(Ids, b), output : SeqsUpTo(Ids, b)] :
        Len(r.input) + Len(r.output) <= b}

\* Lists of k transition records holding at most b arcs together.
RECURSIVE TransLists(_, _)
TransLists(k, b) ==
    IF k = 0 THEN {<<>>}
    ELSE UNION {{<<r>> \o rest :
                    rest \in TransLists(k - 1, b - Len(r.input) - Len(r.output))} :
                r \in TransRecs(b)}

\* AMR documents: any identifiers, so duplicates, dangling references and an
\* identifier shared by a state and a transition all occur.
AMRDocs ==
    {[model |-> [states |-> [i \in DOMAIN s |-> [id |-> s[i]]], transitions |-> t]] :
        s \in SeqsUpTo(Ids, MaxStates),
        t \in UNION {TransLists(k, MaxArcs) : k \in 0..MaxTrans}}

States(m) == m.model.states
Transitions(m) == m.model.transitions

StateIds(m) == {States(m)[i].id : i \in DOMAIN States(m)}
TransIds(m) == {Transitions(m)[j].id : j \in DOMAIN Transitions(m)}

IsAMR(m) == "model" \in DOMAIN m

\* "every transition's input and output lists reference only declared state
\* identifiers"
RefsDeclared(m) ==
    \A j \in DOMAIN Transitions(m) :
        Range(Transitions(m)[j].input) \cup Range(Transitions(m)[j].output)
            \subseteq StateIds(m)

Injective(s) == \A i, j \in DOMAIN s : s[i] = s[j] => i = j

\* The consumed schema: unique state identifiers, unique transition
\* identifiers, references to declared states, unique within each list.
SchemaOK(m) ==
    /\ Injective([i \in DOMAIN States(m) |-> States(m)[i].id])
    /\ Injective([j \in DOMAIN Transitions(m) |-> Transitions(m)[j].id])
    /\ RefsDeclared(m)
    /\ \A j \in DOMAIN Transitions(m) :
          Injective(Transitions(m)[j].input) /\ Injective(Transitions(m)[j].output)

\* ACSet documents (the other format draw_graph reads): names by position,
\* arcs by 1-based index.
AcsetDocs ==
    {[S |-> [i \in DOMAIN s |-> [sname |-> s[i]]],
      T |-> [j \in DOMAIN t |-> [tname |-> t[j]]],
      I |-> [k \in DOMAIN ins |-> [is |-> ins[k][1], it |-> ins[k][2]]],
      O |-> [k \in DOMAIN outs |-> [os |-> outs[k][1], ot |-> outs[k][2]]]] :
        s \in SeqsUpTo(Ids, 1), t \in SeqsUpTo(Ids, 1),
        ins \in SeqsUpTo((1..2) \X (1..1), 1), outs \in SeqsUpTo((1..1) \X (1..1), 1)}

IsAcset(m) == {"S", "T", "I", "O"} \subseteq DOMAIN m

\* ------------------------------------------------- draw_graph: the tables

\* Mutant of AMRNodes: the transition records are left out of the node list.
AMRNodesStatesOnly(m) ==
    [i \in DOMAIN States(m) |-> [id |-> States(m)[i].id, type |-> "S"]]

\* Lines 104-106: one row per state record, then one per transition record.
AMRNodes(m) ==
    [i \in DOMAIN States(m) |-> [id |-> States(m)[i].id, type |-> "S"]]
    \o [j \in DOMAIN Transitions(m) |-> [id |-> Transitions(m)[j].id, type |-> "T"]]

InputRows(t) ==
    [k \in DOMAIN t.input |->
        [id |-> "", source |-> t.input[k], target |-> t.id, edge_type |-> "I"]]

\* Mutant of OutputRows: source and target exchanged.
OutputRowsSwapped(t) ==
    [k \in DOMAIN t.output |->
        [id |-> "", source |-> t.output[k], target |-> t.id, edge_type |-> "O"]]

OutputRows(t) ==
    [k \in DOMAIN t.output |->
        [id |-> "", source |-> t.id, target |-> t.output[k], edge_type |-> "O"]]

RECURSIVE AllInputRows(_)
AllInputRows(ts) ==
    IF ts = <<>> THEN <<>> ELSE InputRows(Head(ts)) \o AllInputRows(Tail(ts))

RECURSIVE AllOutputRows(_)
AllOutputRows(ts) ==
    IF ts = <<>> THEN <<>> ELSE OutputRows(Head(ts)) \o AllOutputRows(Tail(ts))

\* Mutant of AMREdges: the output rows are left out.
AMREdgesInputsOnly(m) == AllInputRows(Transitions(m))

\* Lines 109-111: all input rows (transition by transition), then all output rows.
AMREdges(m) == AllInputRows(Transitions(m)) \o AllOutputRows(Transitions(m))

\* Lines 80-83: position -> name.
AcsetNames(m) ==
    [S |-> [i \in DOMAIN m.S |-> m.S[i].sname], T |-> [j \in DOMAIN m.T |-> m.T[j].tname]]

\* Lines 86-89.
AcsetNodes(m) ==
    [i \in DOMAIN m.S |-> [id |-> m.S[i].sname, type |-> "S"]]
    \o [j \in DOMAIN m.T |-> [id |-> m.T[j].tname, type |-> "T"]]

\* Lines 93 and 95 look every index up in the name maps.
AcsetIndexOK(m) ==
    /\ \A k \in DOMAIN m.I : m.I[k].is \in DOMAIN m.S /\ m.I[k].it \in DOMAIN m.T
    /\ \A k \in DOMAIN m.O : m.O[k].os \in DOMAIN m.S /\ m.O[k].ot \in DOMAIN m.T

\* Lines 92-98.
AcsetEdges(m) ==
    [k \in DOMAIN m.I |->
        [source |-> AcsetNames(m).S[m.I[k].is], source_type |-> "S",
         target |-> AcsetNames(m).T[m.I[k].it], target_type |-> "T", edge_type |-> "I"]]
    \o [k \in DOMAIN m.O |->
        [source |-> AcsetNames(m).T[m.O[k].ot], source_type |-> "T",
         target |-> AcsetNames(m).S[m.O[k].os], target_type |-> "S", edge_type |-> "O"]]

\* Lines 78-111: the two independent `if model_format == ...` blocks.  What
\* they bind, or the exception a missing key raises.
BuildTables(m, a) ==
    IF a.model_format = "acset" THEN
        IF ~IsAcset(m) THEN [raised |-> Raise("KeyError", 81), bound |-> {},
                             df_nodes |-> <<>>, df_edges |-> <<>>]
        ELSE IF ~AcsetIndexOK(m) THEN
            [raised |-> Raise("KeyError", 93), bound |-> {"map_petrinet_names", "df_nodes"},
             df_nodes |-> AcsetNodes(m), df_edges |-> <<>>]
        ELSE [raised |-> NoExc, bound |-> {"map_petrinet_names", "df_nodes", "df_edges"},
              df_nodes |-> AcsetNodes(m), df_edges |-> AcsetEdges(m)]
    ELSE IF a.model_format = "AMR" THEN
        IF ~IsAMR(m) THEN [raised |-> Raise("KeyError", 105), bound |-> {},
                           df_nodes |-> <<>>, df_edges |-> <<>>]
        ELSE [raised |-> NoExc, bound |-> {"df_nodes", "df_edges"},
              df_nodes |-> AMRNodes(m), df_edges |-> AMREdges(m)]
    ELSE [raised |-> Raise("UnboundLocalError", 115), bound |-> {},
          df_nodes |-> <<>>, df_edges |-> <<>>]

\* -------------------------------------------------- draw_graph: the graph

\* networkx DiGraph: nodes in insertion order, a data dict per node, a data
\* dict per (source, target) pair.
EmptyGraph == [order |-> <<>>, node |-> EmptyDict, edge |-> EmptyDict]

\* DiGraph.add_node(n, **attr): a new node is appended; the data dict is updated.
add_node(g, n, attr) ==
    [order |-> IF n \in DOMAIN g.node THEN g.order ELSE Append(g.order, n),
     node |-> (n :> (attr @@ (IF n \in DOMAIN g.node THEN g.node[n] ELSE EmptyDict)))
                  @@ g.node,
     edge |-> g.edge]

\* Mutant of add_edge: an undirected graph (nx.Graph), where (u, v) and (v, u)
\* are one edge.
add_edge_undirected(g, u, v, attr) ==
    LET g1 == IF u \in DOMAIN g.node THEN g ELSE add_node(g, u, EmptyDict)
        g2 == IF v \in DOMAIN g1.node THEN g1 ELSE add_node(g1, v, EmptyDict)
        e == IF u <= v THEN <<u, v>> ELSE <<v, u>>
    IN [g2 EXCEPT !.edge =
            (e :> (attr @@ (IF e \in DOMAIN g2.edge THEN g2.edge[e] ELSE EmptyDict)))
                @@ g2.edge]

\* DiGraph.add_edge(u, v, **attr): missing endpoints are added with an empty
\* data dict; the pair's data dict is updated.
add_edge(g, u, v, attr) ==
    LET g1 == IF u \in DOMAIN g.node THEN g ELSE add_node(g, u, EmptyDict)
        g2 == IF v \in DOMAIN g1.node THEN g1 ELSE add_node(g1, v, EmptyDict)
        e == <<u, v>>
    IN [g2 EXCEPT !.edge =
            (e :> (attr @@ (IF e \in DOMAIN g2.edge THEN g2.edge[e] ELSE EmptyDict)))
                @@ g2.edge]

\* Line 115: G.add_nodes_from([(node['id'], {'id': ..., 'type': ...}) ...]).
RECURSIVE add_nodes_from(_, _)
add_nodes_from(g, rows) ==
    IF rows = <<>> THEN g
    ELSE add_nodes_from(
            add_node(g, Head(rows).id, [id |-> Head(rows).id, type |-> Head(rows).type]),
            Tail(rows))

\* Line 116: G.add_edges_from([(source, target, {'id': idx, 'type': edge_type}) ...]),
\* idx the row's index in df_edges (0-based); `k` is the index of Head(rows).
RECURSIVE add_edges_from(_, _, _)
add_edges_from(g, rows, k) ==
    IF rows = <<>> THEN g
    ELSE add_edges_from(
            add_edge(g, Head(rows).source, Head(rows).target,
                     [id |-> k, type |-> Head(rows).edge_type]),
            Tail(rows), k + 1)

\* Lines 114-116.
BuildGraph(df_nodes, df_edges) ==
    add_edges_from(add_nodes_from(EmptyGraph, df_nodes), df_edges, 0)

\* Lines 129-130 read node[1]['type'] of every node.
AllTyped(g) == \A n \in DOMAIN g.node : "type" \in DOMAIN g.node[n]

\* Lines 128-131: the two shells of the layout, in node order.
ShellList(g) ==
    <<SelectSeq(g.order, LAMBDA n : g.node[n].type = "S"),
      SelectSeq(g.order, LAMBDA n : g.node[n].type = "T")>>

\* Lines 136-142: the keys of map_node_type.  All type values are strings, so
\* a non-empty graph takes the branch of line 139.
NodeTypeKeys(g) == {g.node[n].type : n \in DOMAIN g.node}

\* Line 145.
EdgeTypeKeys(g) == {g.edge[e].type : e \in DOMAIN g.edge}

\* ------------------------------------------------- draw_graph: the drawing

\* Line 198: fig.savefig(save_path, dpi = 150).
SaveDpi == 150

savefig(path) == <<[path |-> path, dpi |-> SaveDpi]>>

\* The locals bound by lines 135-149, given those bound before.
BindDrawing(bound, a) ==
    bound
    \cup (IF a.node_type = "None" THEN {"map_node_type", "node_type"} ELSE {"node_type"})
    \cup (IF a.edge_type = "None" THEN {"map_edge_type", "edge_type"} ELSE {"edge_type"})
    \cup (IF a.ax = "None" THEN {"fig", "ax"} ELSE {"ax"})

\* Lines 151-198: the first statement that raises, if any.
\*   153  for t, i in map_node_type.items()        map_node_type unbound
\*   167  for t, i in map_edge_type.items()        map_edge_type unbound
\*   189  np.nanmax over the positions             no node: zero-size array
\*   198  fig.savefig(...)                         fig unbound
DrawingRaises(bound, g, a) ==
    IF "map_node_type" \notin bound THEN Raise("UnboundLocalError", 153)
    ELSE IF "map_edge_type" \notin bound THEN Raise("UnboundLocalError", 167)
    ELSE IF g.order = <<>> THEN Raise("ValueError", 189)
    ELSE IF a.save_path # "None" /\ "fig" \notin bound THEN Raise("UnboundLocalError", 198)
    ELSE NoExc

\* Lines 197-198: the files the call writes.
Saved(bound, g, a) ==
    IF DrawingRaises(bound, g, a) = NoExc /\ a.save_path # "None"
    THEN savefig(a.save_path) ELSE <<>>

\* The frame of a call that has not happened.
NoFrame ==
    [raised |-> NoExc, bound |-> {}, df_nodes |-> <<>>, df_edges |-> <<>>,
     G |-> EmptyGraph, nlist |-> <<>>, map_node_type |-> {}, map_edge_type |-> {},
     saved |-> <<>>]

\* Lines 73-198: draw_graph(model, ax, node_type, edge_type, save_path, legend,
\* model_format): the locals it binds, the exception it raises, the files it
\* writes.
draw_graph(m, a) ==
    LET t == BuildTables(m, a)
        g == BuildGraph(t.df_nodes, t.df_edges)
        b == BindDrawing(t.bound \cup {"G", "edge_colors", "nlist", "pos"}, a)
    IN  IF t.raised # NoExc THEN
            [NoFrame EXCEPT !.raised = t.raised, !.bound = t.bound,
                            !.df_nodes = t.df_nodes, !.df_edges = t.df_edges]
        ELSE IF ~AllTyped(g) THEN
            [NoFrame EXCEPT !.raised = Raise("KeyError", 129),
                            !.bound = t.bound \cup {"G", "edge_colors"},
                            !.df_nodes = t.df_nodes, !.df_edges = t.df_edges, !.G = g]
        ELSE
            [raised |-> DrawingRaises(b, g, a), bound |-> b,
             df_nodes |-> t.df_nodes, df_edges |-> t.df_edges, G |-> g,
             nlist |-> ShellList(g),
             map_node_type |-> IF a.node_type = "None" THEN NodeTypeKeys(g) ELSE {},
             map_edge_type |-> IF a.edge_type = "None" THEN EdgeTypeKeys(g) ELSE {},
             saved |-> Saved(b, g, a)]

\* The arguments of the script's two calls (lines 223 and 260).
ScriptArgs ==
    [ax |-> "None", node_type |-> "None", edge_type |-> "None", save_path |-> "None",
     legend |-> TRUE, model_format |-> "AMR"]

AllArgs ==
    [ax : {"None", "axes"}, node_type : {"None", "list"}, edge_type : {"None", "list"},
     save_path : {"None", "graph.png"}, legend : BOOLEAN,
     model_format : {"AMR", "acset", "other"}]

\* The documents on which every combination of arguments is tried.
SmallDocs ==
    {m \in AMRDocs : Len(States(m)) <= 1 /\ Len(Transitions(m)) <= 1
                     /\ Len(AMREdges(m)) <= 1}
    \cup AcsetDocs \cup {EmptyDict}


\* Mutant of ModelAfter: the input lists are consumed while they are read (as
\* by popping their items).
ModelAfterConsumed(m, a) ==
    IF IsAMR(m) /\ a.model_format = "AMR"
    THEN [model |-> [states |-> States(m),
                     transitions |-> [j \in DOMAIN Transitions(m) |->
                                         [Transitions(m)[j] EXCEPT !.input = <<>>]]]]
    ELSE m

\* Lines 101-111 only read the document: the comprehensions iterate its lists
\* in place and remove nothing, so the caller's document is what it was.
ModelAfter(m, a) == m

\* ------------------------------------------------ convert_latex2mathml

\* The LaTeX fragment modelled: an equation is a sequence of tokens, an
\* identifier or one of the operators of lines 42-44.
LatexTokens == {"S", "=", "-"}

Equations == SeqsUpTo(LatexTokens, MaxEqLen)

\* latex2mathml writes an operator as a numeric character reference
\* (lines 42-44 list them): = as &#x0003D;, - as &#x02212;, + as &#x0002B;.
CharRef(tok) ==
    CASE tok = "=" -> "&#x0003D;"
      [] tok = "-" -> "&#x02212;"
      [] tok = "+" -> "&#x0002B;"
      [] OTHER -> tok

IsOperator(tok) == tok \in {"=", "-", "+"}

RECURSIVE MarkupTokens(_)
MarkupTokens(eq) ==
    IF eq = <<>> THEN <<>>
    ELSE (IF IsOperator(Head(eq)) THEN <<"<mo>", CharRef(Head(eq)), "</mo>">>
          ELSE <<"<mi>", Head(eq), "</mi>">>)
         \o MarkupTokens(Tail(eq))

\* Line 38: latex2mathml.converter.convert(model_latex[i]); a markup string is
\* the sequence of its tags, texts and character references.
latex2mathml_convert(eq) ==
    <<"<math>", "<mrow>">> \o MarkupTokens(eq) \o <<"</mrow>", "</math>">>

\* The character a reference stands for; U+2212 is the minus sign.
Resolved(tok) ==
    CASE tok = "&#x0003D;" -> "="
      [] tok = "&#x02212;" -> "U+2212"
      [] tok = "&#x0002B;" -> "+"
      [] OTHER -> tok

\* Line 45: html.unescape(m).
html_unescape(m) == [i \in DOMAIN m |-> Resolved(m[i])]

\* Lines 36-47: the loop from index i on, appending to acc.
RECURSIVE latex_loop(_, _, _)
latex_loop(l, i, acc) ==
    IF i > Len(l) THEN acc
    ELSE latex_loop(l, i + 1, Append(acc, html_unescape(latex2mathml_convert(l[i]))))

\* Mutant of convert_latex2mathml: the character references are left as they are.
convert_latex2mathml_raw(l) == [i \in DOMAIN l |-> latex2mathml_convert(l[i])]

\* Lines 33-49: convert_latex2mathml(model_latex).
convert_latex2mathml(l) == latex_loop(l, 1, <<>>)

\* --------------------------------------------- convert_mathml2petrinet

\* Line 27.
REST_URL_SKEMA == "https://skema-rs.staging.terarium.ai"

\* Line 67.
StatusOK == 200

NoArg == [given |-> FALSE, value |-> <<>>]

Some(v) == [given |-> TRUE, value |-> v]

TextBody == [kind |-> "text", doc |-> EmptyDict]

JsonBody(d) == [kind |-> "json", doc |-> d]

\* The service's contract: the answer to a conversion is a status and, with
\* status 200, a JSON document of the consumed schema; any other status comes
\* with a message.  The answer to a ping is a status and a message.
ServiceDocs == {m \in AMRDocs : SchemaOK(m)}

Responses(arg) ==
    IF ~arg.given THEN {[status |-> st, body |-> TextBody] : st \in {StatusOK, 500}}
    ELSE {[status |-> StatusOK, body |-> JsonBody(d)] : d \in ServiceDocs}
         \cup {[status |-> st, body |-> TextBody] : st \in {404, 422, 500}}

RequestEvent(method, path, payload) ==
    [ev |-> "request", method |-> method, url |-> <<REST_URL_SKEMA, path>>, json |-> payload]

\* Lines 60 and 66: print(f'{res.url}: Code {res.status_code}\n\t"{res.text}"').
PrintEvent(path, r) ==
    [ev |-> "print", url |-> <<REST_URL_SKEMA, path>>, code |-> r.status, text |-> r.body]

\* Line 68: res.json() raises when the body is no JSON document.
ParseJson(r) ==
    IF r.body.kind = "json"
    THEN [raised |-> NoExc, result |-> r.body.doc]
    ELSE [raised |-> Raise("JSONDecodeError", 68), result |-> EmptyDict]

\* Mutant of convert_mathml2petrinet: the body is parsed whatever the status.
convert_mathml2petrinet_nocheck(arg, r) ==
    IF ~arg.given THEN
        [log |-> <<RequestEvent("GET", "/ping", NoArg), PrintEvent("/ping", r)>>,
         json_calls |-> 0, raised |-> NoExc, result |-> EmptyDict]
    ELSE
        [log |-> <<RequestEvent("PUT", "/mathml/acset", arg), PrintEvent("/mathml/acset", r)>>,
         json_calls |-> 1, raised |-> ParseJson(r).raised, result |-> ParseJson(r).result]

\* Mutant of convert_mathml2petrinet: a conversion that failed is requested once more.
convert_mathml2petrinet_retry(arg, r) ==
    IF ~arg.given THEN
        [log |-> <<RequestEvent("GET", "/ping", NoArg), PrintEvent("/ping", r)>>,
         json_calls |-> 0, raised |-> NoExc, result |-> EmptyDict]
    ELSE IF r.status = StatusOK THEN
        [log |-> <<RequestEvent("PUT", "/mathml/acset", arg), PrintEvent("/mathml/acset", r)>>,
         json_calls |-> 1, raised |-> ParseJson(r).raised, result |-> ParseJson(r).result]
    ELSE
        [log |-> <<RequestEvent("PUT", "/mathml/acset", arg), PrintEvent("/mathml/acset", r),
                   RequestEvent("PUT", "/mathml/acset", arg), PrintEvent("/mathml/acset", r)>>,
         json_calls |-> 0, raised |-> NoExc, result |-> EmptyDict]

\* Lines 52-70: convert_mathml2petrinet(model_mathml), the service answering r:
\* what it requests and prints, what it returns or raises.
convert_mathml2petrinet(arg, r) ==
    IF ~arg.given THEN
        [log |-> <<RequestEvent("GET", "/ping", NoArg), PrintEvent("/ping", r)>>,
         json_calls |-> 0, raised |-> NoExc, result |-> EmptyDict]
    ELSE IF r.status = StatusOK THEN
        [log |-> <<RequestEvent("PUT", "/mathml/acset", arg), PrintEvent("/mathml/acset", r)>>,
         json_calls |-> 1, raised |-> ParseJson(r).raised, result |-> ParseJson(r).result]
    ELSE
        [log |-> <<RequestEvent("PUT", "/mathml/acset", arg), PrintEvent("/mathml/acset", r)>>,
         json_calls |-> 0, raised |-> NoExc, result |-> EmptyDict]

\* The markup lists sent: what convert_latex2mathml makes of a few equations.
SampleEquations == {<<"S", "=", "-", "S">>, <<"S", "=", "S">>}

NetArgs ==
    {NoArg} \cup {Some(convert_latex2mathml(l)) : l \in SeqsUpTo(SampleEquations, MaxPayload)}

\* ------------------------------------------------------------- SpecDraw

NoNet == [raised |-> NoExc, result |-> EmptyDict, json_calls |-> 0]

NoResponse == [status |-> 0, body |-> TextBody]

InitDraw ==
    /\ pc = "draw"
    /\ \/ model \in AMRDocs \cup {EmptyDict} /\ args = ScriptArgs
       \/ model \in SmallDocs /\ args \in AllArgs
    /\ frame = NoFrame
    /\ files = <<>>
    /\ model_mathml = NoArg
    /\ response = NoResponse
    /\ log = <<>>
    /\ net = NoNet
    /\ model_latex = <<>>
    /\ latex_out = <<>>

\* draw_graph(model, **args), with the caller's state after it.
CallDrawGraph(m, a) ==
    /\ frame' = draw_graph(m, a)
    /\ model' = ModelAfter(m, a)
    /\ args' = a
    /\ files' = files \o frame'.saved

\* A first call draw_graph(model, **args).
Draw ==
    /\ pc = "draw"
    /\ CallDrawGraph(model, args)
    /\ pc' = "again"
    /\ UNCHANGED <<model_mathml, response, log, net, model_latex, latex_out>>

\* The same call once more, on the same document object.
DrawAgain ==
    /\ pc = "again"
    /\ CallDrawGraph(model, args)
    /\ pc' = "done"
    /\ UNCHANGED <<model_mathml, response, log, net, model_latex, latex_out>>

NextDraw == Draw \/ DrawAgain

SpecDraw == InitDraw /\ [][NextDraw]_vars

\* -------------------------------------------------------------- SpecNet

InitNet ==
    /\ pc = "call"
    /\ model_mathml \in NetArgs
    /\ response = NoResponse
    /\ log = <<>>
    /\ net = NoNet
    /\ model = EmptyDict
    /\ args = ScriptArgs
    /\ frame = NoFrame
    /\ files = <<>>
    /\ model_latex = <<>>
    /\ latex_out = <<>>

\* Lines 220 and 257 (and a ping): one call of convert_mathml2petrinet.
Convert ==
    /\ pc = "call"
    /\ \E r \in Responses(model_mathml) :
          /\ response' = r
          /\ log' = log \o convert_mathml2petrinet(model_mathml, r).log
          /\ net' = [raised |-> convert_mathml2petrinet(model_mathml, r).raised,
                     result |-> convert_mathml2petrinet(model_mathml, r).result,
                     json_calls |-> convert_mathml2petrinet(model_mathml, r).json_calls]
    /\ pc' = "returned"
    /\ UNCHANGED <<model, args, frame, files, model_mathml, model_latex, latex_out>>

\* Lines 223 and 260: draw_graph(model = <the conversion's result>, legend = True,
\* model_format = 'AMR').
DrawResult ==
    /\ pc = "returned"
    /\ model_mathml.given
    /\ net.raised = NoExc
    /\ CallDrawGraph(net.result, ScriptArgs)
    /\ pc' = "drawn"
    /\ UNCHANGED <<model_mathml, response, log, net, model_latex, latex_out>>

NextNet == Convert \/ DrawResult

SpecNet == InitNet /\ [][NextNet]_vars

\* ------------------------------------------------------------ SpecLatex

InitLatex ==
    /\ pc = "latex"
    /\ model_latex \in SeqsUpTo(Equations, MaxEqs)
    /\ latex_out = <<>>
    /\ model = EmptyDict
    /\ args = ScriptArgs
    /\ frame = NoFrame
    /\ files = <<>>
    /\ model_mathml = NoArg
    /\ response = NoResponse
    /\ log = <<>>
    /\ net = NoNet

\* Lines 216 and 253: convert_latex2mathml(model_latex); the loop reads
\* model_latex[i] and writes only its own list.
ConvertLatex ==
    /\ pc = "latex"
    /\ latex_out' = convert_latex2mathml(model_latex)
    /\ model_latex' = model_latex
    /\ pc' = "latex_done"
    /\ UNCHANGED <<model, args, frame, files, model_mathml, response, log, net>>

NextLatex == ConvertLatex

SpecLatex == InitLatex /\ [][NextLatex]_vars

\* =============================================================== claims

\* draw_graph has been called on the document, in its AMR branch.
AMRCalled ==
    pc \in {"again", "done"} /\ IsAMR(model) /\ args.model_format = "AMR"

RECURSIVE SumInputLen(_)
SumInputLen(ts) == IF ts = <<>> THEN 0 ELSE Len(Head(ts).input) + SumInputLen(Tail(ts))

RECURSIVE SumOutputLen(_)
SumOutputLen(ts) == IF ts = <<>> THEN 0 ELSE Len(Head(ts).output) + SumOutputLen(Tail(ts))

NodeListIds(f) == {f.df_nodes[i].id : i \in DOMAIN f.df_nodes}

\* No identifier names both a state and a transition.
DisjointIds(m) == StateIds(m) \cap TransIds(m) = {}

\* C1: for an AMR document with N state records and M transition records whose
\* input and output lists reference only declared states, df_nodes has N + M
\* rows and df_edges has (sum of input-list lengths) + (sum of output-list
\* lengths) rows.
C1_TableSizes ==
    (AMRCalled /\ RefsDeclared(model)) =>
        /\ {"df_nodes", "df_edges"} \subseteq frame.bound
        /\ Len(frame.df_nodes) = Len(States(model)) + Len(Transitions(model))
        /\ Len(frame.df_edges) =
              SumInputLen(Transitions(model)) + SumOutputLen(Transitions(model))

C1_Witness ==
    /\ AMRCalled /\ RefsDeclared(model)
    /\ Len(States(model)) = 1 /\ Len(Transitions(model)) = 1
    /\ Len(Transitions(model)[1].input) = 1 /\ Len(Transitions(model)[1].output) = 1
    /\ Len(frame.df_nodes) = 2 /\ Len(frame.df_edges) = 2

\* Every row of df_edges has its source and its target among the ids of
\* df_nodes; the graph has no node df_nodes lacks; every graph node has a type.
NoDangling(f) ==
    /\ \A k \in DOMAIN f.df_edges :
          f.df_edges[k].source \in NodeListIds(f) /\ f.df_edges[k].target \in NodeListIds(f)
    /\ "G" \in f.bound
    /\ DOMAIN f.G.node \subseteq NodeListIds(f)
    /\ AllTyped(f.G)

\* C2 as stated: for every AMR document draw_graph consumes, no edge dangles,
\* the graph gains no node from the edge list and every node carries a type.
C2_Original == AMRCalled => NoDangling(frame)

\* C2 amended: the same, for the AMR documents whose input and output lists
\* reference only declared state identifiers.
C2_NoDangling == (AMRCalled /\ RefsDeclared(model)) => NoDangling(frame)

C2_Witness ==
    /\ AMRCalled /\ RefsDeclared(model)
    /\ frame.df_edges # <<>>
    /\ Len(frame.G.order) = 2

IsInputEdge(m, e) ==
    /\ e.edge_type = "I"
    /\ e.source \in StateIds(m)
    /\ \E j \in DOMAIN Transitions(m) :
          Transitions(m)[j].id = e.target /\ e.source \in Range(Transitions(m)[j].input)

\* An output row: from a transition to a state it lists as output.
IsOutputEdge(m, e) ==
    /\ e.edge_type = "O"
    /\ e.target \in StateIds(m)
    /\ \E j \in DOMAIN Transitions(m) :
          Transitions(m)[j].id = e.source /\ e.target \in Range(Transitions(m)[j].output)

EdgeKinds(m, f) ==
    \A k \in DOMAIN f.df_edges :
        LET e == f.df_edges[k] IN
        /\ IsInputEdge(m, e) # IsOutputEdge(m, e)
        /\ ~(e.source \in StateIds(m) /\ e.target \in StateIds(m))
        /\ ~(e.source \in TransIds(m) /\ e.target \in TransIds(m))

\* C6 as stated: in the edge list built from an AMR document every edge is
\* either an input edge (state -> transition listing it) or an output edge
\* (transition -> state it lists), and none joins two states or two transitions.
C6_Original == AMRCalled => EdgeKinds(model, frame)

\* C6 amended: the same, for the AMR documents whose lists reference only
\* declared states and in which no identifier names both a state and a
\* transition.
C6_EdgeKinds ==
    (AMRCalled /\ RefsDeclared(model) /\ DisjointIds(model)) => EdgeKinds(model, frame)

C6_Witness ==
    /\ AMRCalled /\ RefsDeclared(model) /\ DisjointIds(model)
    /\ \E k \in DOMAIN frame.df_edges : frame.df_edges[k].edge_type = "I"
    /\ \E k \in DOMAIN frame.df_edges : frame.df_edges[k].edge_type = "O"

\* The graph is faithful to the tables: as many nodes as df_nodes has rows, as
\* many edges as df_edges has rows, every node typed S or T, and the two layout
\* shells partition the nodes.
Faithful(f) ==
    /\ {"G", "nlist"} \subseteq f.bound
    /\ Len(f.G.order) = Len(f.df_nodes)
    /\ Cardinality(DOMAIN f.G.edge) = Len(f.df_edges)
    /\ \A n \in DOMAIN f.G.node :
          "type" \in DOMAIN f.G.node[n] /\ f.G.node[n].type \in {"S", "T"}
    /\ Len(f.nlist) = 2
    /\ Range(f.nlist[1]) \cup Range(f.nlist[2]) = DOMAIN f.G.node
    /\ Range(f.nlist[1]) \cap Range(f.nlist[2]) = {}
    /\ Injective(f.nlist[1]) /\ Injective(f.nlist[2])

\* C9 as stated: for every AMR document of the consumed schema (unique state
\* identifiers, unique transition identifiers, lists referencing declared
\* states uniquely) the graph is faithful to the tables.
C9_Original == (AMRCalled /\ SchemaOK(model)) => Faithful(frame)

\* C9 amended: the same, when moreover no identifier names both a state and a
\* transition.
C9_Faithful == (AMRCalled /\ SchemaOK(model) /\ DisjointIds(model)) => Faithful(frame)

C9_Witness ==
    /\ AMRCalled /\ SchemaOK(model) /\ DisjointIds(model)
    /\ Len(frame.G.order) = 2
    /\ Cardinality(DOMAIN frame.G.edge) = 2
    /\ Len(frame.nlist[1]) = 1 /\ Len(frame.nlist[2]) = 1

\* C7 as stated: a call with a save_path writes the image to that path at dpi
\* 150 whatever the other arguments, the caller's own axes included; a call
\* without save_path writes no file.  Stated here for the calls that differ
\* from the script's only in ax and save_path, on a non-empty document of the
\* schema.
C7_Original ==
    (/\ AMRCalled /\ SchemaOK(model) /\ DisjointIds(model) /\ States(model) # <<>>
     /\ args.node_type = "None" /\ args.edge_type = "None")
        => /\ args.save_path # "None" =>
                frame.saved = <<[path |-> args.save_path, dpi |-> 150]>>
           /\ args.save_path = "None" => frame.saved = <<>>

\* C4: called with a list of markup strings, the function returns the
\* response's JSON document exactly when the status is 200 (it parses the body
\* then and only then); for any other status it returns {} and raises nothing.
C4_StatusDecides ==
    (pc \in {"returned", "drawn"} /\ model_mathml.given) =>
        /\ response.status = StatusOK =>
              /\ net.json_calls = 1
              /\ net.raised = NoExc
              /\ net.result = response.body.doc
        /\ response.status # StatusOK =>
              /\ net.json_calls = 0
              /\ net.raised = NoExc
              /\ net.result = EmptyDict

C4_Witness ==
    /\ pc = "returned" /\ model_mathml.given
    /\ response.status = 500
    /\ net.result = EmptyDict /\ net.raised = NoExc

\* C5: a call issues exactly one HTTP request whatever the status (GET /ping
\* without an argument, else PUT /mathml/acset carrying the whole list), then
\* prints one diagnostic, and returns.
C5_OneRequest ==
    pc \in {"returned", "drawn"} =>
        /\ Len(log) = 2
        /\ log[1].ev = "request"
        /\ log[1] = IF model_mathml.given
                    THEN [ev |-> "request", method |-> "PUT",
                          url |-> <<REST_URL_SKEMA, "/mathml/acset">>, json |-> model_mathml]
                    ELSE [ev |-> "request", method |-> "GET",
                          url |-> <<REST_URL_SKEMA, "/ping">>, json |-> NoArg]
        /\ log[2].ev = "print"
        /\ log[2].url = log[1].url
        /\ log[2].code = response.status
        /\ net.raised = NoExc

C5_Witness ==
    /\ pc = "returned" /\ model_mathml.given /\ model_mathml.value # <<>>
    /\ response.status = 404
    /\ Len(log) = 2

\* C10 as stated: when the conversion returned {} after a non-200 status, the
\* script's draw_graph call on that result completes without raising.
C10_Original ==
    (pc = "drawn" /\ response.status # StatusOK /\ net.result = EmptyDict)
        => frame.raised = NoExc

\* C8: the output has the length and order of the input: output[i] is the
\* external conversion of input[i] with its character references resolved,
\* and the input list is unchanged.
C8_Elementwise ==
    [][pc = "latex" =>
          /\ model_latex' = model_latex
          /\ Len(latex_out') = Len(model_latex)
          /\ \A i \in DOMAIN model_latex :
                latex_out'[i] = html_unescape(latex2mathml_convert(model_latex[i]))]_vars

C8_Witness ==
    /\ pc = "latex_done"
    /\ Len(model_latex) = 2 /\ Len(latex_out) = 2
    /\ model_latex[1] = <<"S", "=">> /\ model_latex[2] = <<"-", "S">>
    /\ latex_out[1] = <<"<math>", "<mrow>", "<mi>", "S", "</mi>", "<mo>", "=", "</mo>",
                        "</mrow>", "</math>">>
    /\ latex_out[2] # latex_out[1]

====
